---- MODULE Spec2Model ----
(***************************************************************************)
(* Model of the section-property engine of math_tools                      *)
(* (src/math_tools/section_modulus.py, "current") and of its older copy     *)
(* (src/section_modulus.py, "legacy").                                      *)
(*                                                                         *)
(* Numbers.  The formulas take and return Python floats.  The model        *)
(* evaluates them over the reals they denote: a number is a record         *)
(* [n, d, k] standing for (n/d) * pi^k, kept in lowest terms with d > 0,    *)
(* so that `pi` stays symbolic and no rounding happens.  Division by a     *)
(* zero number is Python's ZeroDivisionError; every division of the source *)
(* is guarded here by the test that raises it.                             *)
(*                                                                         *)
(* State.  One call of a formula at a time: `call` is the pending or last   *)
(* invocation, `outcome` what it did (returned / raised, which exception,  *)
(* at which statement), `section` and `i_de` the returned values, `read`    *)
(* the last property read (Sx, Sy, __str__) made on the returned Section.   *)
(* `result` is the value returned by gcd, lcm and USCustomary, `frame` the  *)
(* locals of a running gcd, `cli` the position of the menu loop.           *)
(***************************************************************************)
EXTENDS Integers, Sequences, FiniteSets, TLC

VARIABLES call, outcome, section, i_de, read, result, frame, cli

vars == <<call, outcome, section, i_de, read, result, frame, cli>>

\* what the section-property engine never touches: the value returned by
\* the integer and length routines, the locals of a running gcd, the menu
otherVars == <<result, frame, cli>>

(***************************************************************************)
(* Bounds of the explored inputs.                                          *)
(***************************************************************************)
MaxHalves == 6
MaxStrips == 2
MaxHeight == 3
MaxWidth == 2

(***************************************************************************)
(* Real arithmetic on (n/d) * pi^k.                                        *)
(***************************************************************************)
Abs(x) == IF x < 0 THEN -x ELSE x

RECURSIVE GCD(_, _)
GCD(a, b) == IF b = 0 THEN a ELSE GCD(b, a % b)

Zero == [n |-> 0, d |-> 1, k |-> 0]

Norm(n, d, k) ==
    IF n = 0 THEN Zero
    ELSE LET g == GCD(Abs(n), Abs(d))
             s == IF d < 0 THEN -1 ELSE 1
         IN [n |-> (s * n) \div g, d |-> (s * d) \div g, k |-> k]

Rat(n, d) == Norm(n, d, 0)
Int2(n) == Rat(n, 1)

IsZero(a) == a.n = 0

Neg(a) == [n |-> -a.n, d |-> a.d, k |-> a.k]

\* a + b; both operands carry the same power of pi unless one is zero
Add(a, b) ==
    IF a.n = 0 THEN b
    ELSE IF b.n = 0 THEN a
    ELSE LET g == GCD(a.d, b.d)
         IN Norm(a.n * (b.d \div g) + b.n * (a.d \div g), (a.d \div g) * b.d, a.k)

Sub(a, b) == Add(a, Neg(b))

Mul(a, b) ==
    LET g1 == GCD(Abs(a.n), b.d)
        g2 == GCD(Abs(b.n), a.d)
    IN IF a.n = 0 \/ b.n = 0 THEN Zero
       ELSE Norm((a.n \div g1) * (b.n \div g2), (a.d \div g2) * (b.d \div g1), a.k + b.k)

\* a / b for b # 0
Div(a, b) == Mul(a, [n |-> (IF b.n < 0 THEN -b.d ELSE b.d), d |-> Abs(b.n), k |-> -b.k])

RECURSIVE Pow(_, _)
Pow(a, e) == IF e = 0 THEN Int2(1) ELSE Mul(a, Pow(a, e - 1))

\* a < b, a <= b for operands carrying the same power of pi
Less(a, b) == a.n * b.d < b.n * a.d
LessEq(a, b) == a.n * b.d <= b.n * a.d

pi == [n |-> 1, d |-> 1, k |-> 1]


(***************************************************************************)
(* Outcome of evaluating a function: it returns a value or raises.         *)
(***************************************************************************)
None == [none |-> TRUE]

Return(v) == [kind |-> "return", exc |-> "", at |-> "", value |-> v]
Raise(e, a) == [kind |-> "raise", exc |-> e, at |-> a, value |-> None]

(***************************************************************************)
(* Section (current version): frozen dataclass with three stored fields    *)
(* and the derived properties Ixx, Iyy, Sx, Sy and __str__.  Python        *)
(* indexes from 0, TLA+ tuples from 1.                                     *)
(***************************************************************************)
Section(c, a, m) == [centroid |-> c, area |-> a, moment_of_inertia |-> m]

\* `s.name = value` on a dataclass that is not frozen: the field is rebound
Section_setattr_unfrozen(s, name, value) ==
    [result |-> Return(None), self |-> [s EXCEPT ![name] = value]]

\* `s.name = value`: frozen=True makes __setattr__ raise FrozenInstanceError
\* and leave the instance as it was (both versions declare it)
Section_setattr(s, name, value) ==
    [result |-> Raise("FrozenInstanceError", name), self |-> s]

Ixx(s) == s.moment_of_inertia[1]
Iyy(s) == s.moment_of_inertia[2]

Sx(s) ==
    IF IsZero(s.centroid[2][1]) \/ IsZero(s.centroid[2][2])
    THEN Raise("ZeroDivisionError", "Sx")
    ELSE Return(<<Div(Ixx(s), s.centroid[2][1]), Div(Ixx(s), s.centroid[2][2])>>)

Sy(s) ==
    IF IsZero(s.centroid[1][1]) \/ IsZero(s.centroid[1][2])
    THEN Raise("ZeroDivisionError", "Sy")
    ELSE Return(<<Div(Iyy(s), s.centroid[1][1]), Div(Iyy(s), s.centroid[1][2])>>)

\* The f-string evaluates its fields left to right; the first field that
\* raises ends the rendering.  The rendered value is the row of numbers
\* that are formatted (.3f digits are not modelled).
Section_str(s) ==
    IF Sx(s).kind = "raise" THEN Sx(s)
    ELSE IF Sy(s).kind = "raise" THEN Sy(s)
    ELSE Return(<<s.centroid[1][1], s.centroid[1][2],
                  s.centroid[2][1], s.centroid[2][2],
                  s.area, Ixx(s), Iyy(s),
                  Sx(s).value[1], Sx(s).value[2],
                  Sy(s).value[1], Sy(s).value[2]>>)

(***************************************************************************)
(* Discrete shape formulas (current version).                              *)
(***************************************************************************)
\* bar with the two moments of inertia exchanged
bar_moments_swapped(width, thickness) ==
    LET y == Div(width, Int2(2))
        x == Div(thickness, Int2(2))
        area == Mul(width, thickness)
        ixx == Div(Mul(Pow(width, 3), thickness), Int2(12))
        iyy == Div(Mul(Pow(thickness, 3), width), Int2(12))
    IN Return(Section(<<<<x, x>>, <<y, y>>>>, area, <<iyy, ixx>>))

bar(width, thickness) ==
    LET y == Div(width, Int2(2))
        x == Div(thickness, Int2(2))
        area == Mul(width, thickness)
        ixx == Div(Mul(Pow(width, 3), thickness), Int2(12))
        iyy == Div(Mul(Pow(thickness, 3), width), Int2(12))
    IN Return(Section(<<<<x, x>>, <<y, y>>>>, area, <<ixx, iyy>>))

\* tbeam with the web height measured below the flange (depth - flg_thick)
tbeam_web_below_flange(depth, web_thick, flg_width, flg_thick) ==
    LET height == Sub(depth, flg_thick)
        area == Add(Mul(flg_width, flg_thick), Mul(height, web_thick))
        sum_b_d_squared == Add(Mul(Pow(depth, 2), web_thick),
                               Mul(Pow(flg_thick, 2), Sub(flg_width, web_thick)))
        y == Sub(depth, Div(sum_b_d_squared, Mul(Int2(2), area)))
        x == Div(flg_width, Int2(2))
        b_d_cubed == Sub(Add(Mul(web_thick, Pow(y, 3)),
                             Mul(flg_width, Pow(Sub(depth, y), 3))),
                         Mul(Sub(flg_width, web_thick),
                             Pow(Sub(Sub(depth, y), flg_thick), 3)))
        ixx == Mul(Div(Int2(1), Int2(3)), b_d_cubed)
        iyy == Add(Div(Mul(Pow(web_thick, 3), height), Int2(12)),
                   Div(Mul(Pow(flg_width, 3), flg_thick), Int2(12)))
    IN IF IsZero(Mul(Int2(2), area))
       THEN Raise("ZeroDivisionError", "y = depth - sum_b_d_squared / (2 * area)")
       ELSE Return(Section(<<<<x, x>>, <<y, Sub(depth, y)>>>>, area, <<ixx, iyy>>))

tbeam(depth, web_thick, flg_width, flg_thick) ==
    LET height == Sub(depth, web_thick)
        area == Add(Mul(flg_width, flg_thick), Mul(height, web_thick))
        sum_b_d_squared == Add(Mul(Pow(depth, 2), web_thick),
                               Mul(Pow(flg_thick, 2), Sub(flg_width, web_thick)))
        y == Sub(depth, Div(sum_b_d_squared, Mul(Int2(2), area)))
        x == Div(flg_width, Int2(2))
        b_d_cubed == Sub(Add(Mul(web_thick, Pow(y, 3)),
                             Mul(flg_width, Pow(Sub(depth, y), 3))),
                         Mul(Sub(flg_width, web_thick),
                             Pow(Sub(Sub(depth, y), flg_thick), 3)))
        ixx == Mul(Div(Int2(1), Int2(3)), b_d_cubed)
        iyy == Add(Div(Mul(Pow(web_thick, 3), height), Int2(12)),
                   Div(Mul(Pow(flg_width, 3), flg_thick), Int2(12)))
    IN IF IsZero(Mul(Int2(2), area))
       THEN Raise("ZeroDivisionError", "y = depth - sum_b_d_squared / (2 * area)")
       ELSE Return(Section(<<<<x, x>>, <<y, Sub(depth, y)>>>>, area, <<ixx, iyy>>))

\* angle with the corner moments corrected by the wrong centroid offsets
angle_offsets_swapped(long_leg, short_leg, thick) ==
    LET area == Mul(Sub(Add(long_leg, short_leg), thick), thick)
        i_xnaught == Mul(Div(thick, Int2(3)),
                         Sub(Add(Mul(short_leg, Pow(thick, 2)), Pow(long_leg, 3)),
                             Pow(thick, 3)))
        i_ynaught == Mul(Div(thick, Int2(3)),
                         Sub(Add(Mul(long_leg, Pow(thick, 2)), Pow(short_leg, 3)),
                             Pow(thick, 3)))
        x == Mul(Div(Int2(1), area),
                 Mul(Div(thick, Int2(2)),
                     Sub(Add(Pow(short_leg, 2), Mul(long_leg, thick)), Pow(thick, 2))))
        y == Mul(Div(Int2(1), area),
                 Mul(Div(thick, Int2(2)),
                     Sub(Add(Pow(long_leg, 2), Mul(short_leg, thick)), Pow(thick, 2))))
        ixx == Sub(i_xnaught, Mul(area, Pow(x, 2)))
        iyy == Sub(i_ynaught, Mul(area, Pow(y, 2)))
    IN IF IsZero(area)
       THEN Raise("ZeroDivisionError", "x = (1 / area) * (...)")
       ELSE Return(Section(<<<<x, Sub(short_leg, x)>>, <<y, Sub(long_leg, y)>>>>,
                           area, <<ixx, iyy>>))

angle(long_leg, short_leg, thick) ==
    LET area == Mul(Sub(Add(long_leg, short_leg), thick), thick)
        i_xnaught == Mul(Div(thick, Int2(3)),
                         Sub(Add(Mul(short_leg, Pow(thick, 2)), Pow(long_leg, 3)),
                             Pow(thick, 3)))
        i_ynaught == Mul(Div(thick, Int2(3)),
                         Sub(Add(Mul(long_leg, Pow(thick, 2)), Pow(short_leg, 3)),
                             Pow(thick, 3)))
        x == Mul(Div(Int2(1), area),
                 Mul(Div(thick, Int2(2)),
                     Sub(Add(Pow(short_leg, 2), Mul(long_leg, thick)), Pow(thick, 2))))
        y == Mul(Div(Int2(1), area),
                 Mul(Div(thick, Int2(2)),
                     Sub(Add(Pow(long_leg, 2), Mul(short_leg, thick)), Pow(thick, 2))))
        ixx == Sub(i_xnaught, Mul(area, Pow(y, 2)))
        iyy == Sub(i_ynaught, Mul(area, Pow(x, 2)))
    IN IF IsZero(area)
       THEN Raise("ZeroDivisionError", "x = (1 / area) * (...)")
       ELSE Return(Section(<<<<x, Sub(short_leg, x)>>, <<y, Sub(long_leg, y)>>>>,
                           area, <<ixx, iyy>>))

circle(radius) ==
    Return(Section(<<<<radius, radius>>, <<radius, radius>>>>,
                   Mul(pi, Pow(radius, 2)),
                   <<Div(Mul(pi, Pow(radius, 4)), Int2(64)),
                     Div(Mul(pi, Pow(radius, 4)), Int2(64))>>))

\* pipe with the wall thickness taken off the diameter instead of the radius
pipe_thickness_off_diameter(od, thickness) ==
    LET outer == circle(Div(od, Int2(2))).value
        inner == circle(Div(Sub(od, thickness), Int2(2))).value
    IN Return(Section(outer.centroid,
                      Sub(outer.area, inner.area),
                      <<Sub(Ixx(outer), Ixx(inner)), Sub(Iyy(outer), Iyy(inner))>>))

pipe(od, thickness) ==
    LET outer == circle(Div(od, Int2(2))).value
        inner == circle(Sub(Div(od, Int2(2)), thickness)).value
    IN Return(Section(outer.centroid,
                      Sub(outer.area, inner.area),
                      <<Sub(Ixx(outer), Ixx(inner)), Sub(Iyy(outer), Iyy(inner))>>))

i_beam_equalflange(depth, web_thick, flg_width, flg_thick) ==
    LET h == Sub(depth, web_thick)
        y == Div(depth, Int2(2))
        x == Div(flg_width, Int2(2))
        area == Add(Mul(Mul(Int2(2), flg_width), flg_thick), Mul(h, web_thick))
        ixx == Div(Sub(Mul(flg_width, Pow(depth, 3)),
                       Mul(Pow(h, 3), Sub(flg_width, web_thick))), Int2(12))
        iyy == Div(Add(Mul(Mul(Int2(2), flg_thick), Pow(flg_width, 3)),
                       Mul(h, Pow(web_thick, 3))), Int2(12))
    IN Return(Section(<<<<x, x>>, <<y, y>>>>, area, <<ixx, iyy>>))

(***************************************************************************)
(* Composite accumulator.  zip() stops at the shorter of the two           *)
(* sequences; the loop body is one step of parallel_axis_loop.             *)
(***************************************************************************)
Min(a, b) == IF a <= b THEN a ELSE b

\* the loop with `prev = height` forgotten
RECURSIVE parallel_axis_loop_stale_prev(_, _, _, _)
parallel_axis_loop_stale_prev(widths, heights, axis_offset, i) ==
    IF i = 0
    THEN [area |-> Zero, moment |-> Zero, i_de |-> Zero, prev |-> axis_offset]
    ELSE LET acc == parallel_axis_loop_stale_prev(widths, heights, axis_offset, i - 1)
             width == widths[i]
             height == heights[i]
         IN [area |-> Add(acc.area, Mul(width, Sub(height, acc.prev))),
             moment |-> Add(acc.moment,
                            Div(Mul(width, Sub(Pow(height, 2), Pow(acc.prev, 2))), Int2(2))),
             i_de |-> Add(acc.i_de,
                          Div(Mul(width, Sub(Pow(height, 3), Pow(acc.prev, 3))), Int2(3))),
             prev |-> acc.prev]

RECURSIVE parallel_axis_loop(_, _, _, _)
parallel_axis_loop(widths, heights, axis_offset, i) ==
    IF i = 0
    THEN [area |-> Zero, moment |-> Zero, i_de |-> Zero, prev |-> axis_offset]
    ELSE LET acc == parallel_axis_loop(widths, heights, axis_offset, i - 1)
             width == widths[i]
             height == heights[i]
         IN [area |-> Add(acc.area, Mul(width, Sub(height, acc.prev))),
             moment |-> Add(acc.moment,
                            Div(Mul(width, Sub(Pow(height, 2), Pow(acc.prev, 2))), Int2(2))),
             i_de |-> Add(acc.i_de,
                          Div(Mul(width, Sub(Pow(height, 3), Pow(acc.prev, 3))), Int2(3))),
             prev |-> height]

\* parallel_axis with the centroid distance not squared in the correction
parallel_axis_unsquared(widths, heights, axis_offset) ==
    LET acc == parallel_axis_loop(widths, heights, axis_offset,
                                  Min(Len(widths), Len(heights)))
        d == Div(acc.moment, acc.area)
        ixx == Sub(acc.i_de, Mul(acc.area, d))
    IN IF IsZero(acc.area)
       THEN Raise("ZeroDivisionError", "d = moment / area")
       ELSE Return(<<Section(<<<<Zero, Zero>>, <<d, Sub(acc.prev, d)>>>>,
                             acc.area, <<ixx, Zero>>),
                     acc.i_de>>)

\* returns the pair (Section, i_de)
parallel_axis(widths, heights, axis_offset) ==
    LET acc == parallel_axis_loop(widths, heights, axis_offset,
                                  Min(Len(widths), Len(heights)))
        d == Div(acc.moment, acc.area)
        ixx == Sub(acc.i_de, Mul(acc.area, Pow(d, 2)))
    IN IF IsZero(acc.area)
       THEN Raise("ZeroDivisionError", "d = moment / area")
       ELSE Return(<<Section(<<<<Zero, Zero>>, <<d, Sub(acc.prev, d)>>>>,
                             acc.area, <<ixx, Zero>>),
                     acc.i_de>>)

(***************************************************************************)
(* Legacy version (src/section_modulus.py).  Fields may hold None.         *)
(***************************************************************************)
\* Python truthiness of an Optional[float]: None and 0 are false
Falsy(x) == x = None \/ x.n = 0

Sx_legacy(s) ==
    IF Falsy(Ixx(s)) \/ s.centroid[2] = None
    THEN Return(None)
    ELSE IF IsZero(s.centroid[2][1]) \/ IsZero(s.centroid[2][2])
    THEN Raise("ZeroDivisionError", "Sx")
    ELSE Return(<<Div(Ixx(s), s.centroid[2][1]), Div(Ixx(s), s.centroid[2][2])>>)

Sy_legacy(s) ==
    IF Falsy(Iyy(s)) \/ s.centroid[1] = None
    THEN Return(None)
    ELSE IF IsZero(s.centroid[1][1]) \/ IsZero(s.centroid[1][2])
    THEN Raise("ZeroDivisionError", "Sy")
    ELSE Return(<<Div(Iyy(s), s.centroid[1][1]), Div(Iyy(s), s.centroid[1][2])>>)

\* fields in f-string order; subscripting None and formatting None with
\* a float format both raise TypeError
Section_str_legacy(s) ==
    IF s.centroid[1] = None THEN Raise("TypeError", "self.centroid[0][0]")
    ELSE IF s.centroid[2] = None THEN Raise("TypeError", "self.centroid[1][0]")
    ELSE IF Ixx(s) = None THEN Raise("TypeError", "self.Ixx:0.3f")
    ELSE IF Iyy(s) = None THEN Raise("TypeError", "self.Iyy:0.3f")
    ELSE IF Sx_legacy(s).kind = "raise" THEN Sx_legacy(s)
    ELSE IF Sx_legacy(s).value = None THEN Raise("TypeError", "self.Sx[0]")
    ELSE IF Sy_legacy(s).kind = "raise" THEN Sy_legacy(s)
    ELSE IF Sy_legacy(s).value = None THEN Raise("TypeError", "self.Sy[0]")
    ELSE Return(<<s.centroid[1][1], s.centroid[1][2],
                  s.centroid[2][1], s.centroid[2][2],
                  s.area, Ixx(s), Iyy(s),
                  Sx_legacy(s).value[1], Sx_legacy(s).value[2],
                  Sy_legacy(s).value[1], Sy_legacy(s).value[2]>>)

bar_legacy(depth, thickness) ==
    LET y == Div(depth, Int2(2))
        x == Div(thickness, Int2(2))
        area == Mul(depth, thickness)
        Ixx_ == Div(Mul(Pow(depth, 3), thickness), Int2(12))
        Iyy_ == Div(Mul(Pow(thickness, 3), depth), Int2(12))
    IN Return(Section(<<<<x, x>>, <<y, y>>>>, area, <<Ixx_, Iyy_>>))

tbeam_legacy(depth, web_thick, flg_width, flg_thick) ==
    LET height == Sub(depth, web_thick)
        area == Add(Mul(flg_width, flg_thick), Mul(height, web_thick))
        sum_b_d_squared == Add(Mul(Pow(depth, 2), web_thick),
                               Mul(Pow(flg_thick, 2), Sub(flg_width, web_thick)))
        y == Sub(depth, Div(sum_b_d_squared, Mul(Int2(2), area)))
        x == Div(flg_width, Int2(2))
        b_d_cubed == Sub(Add(Mul(web_thick, Pow(y, 3)),
                             Mul(flg_width, Pow(Sub(depth, y), 3))),
                         Mul(Sub(flg_width, web_thick),
                             Pow(Sub(Sub(depth, y), flg_thick), 3)))
        Ixx_ == Mul(Div(Int2(1), Int2(3)), b_d_cubed)
        Iyy_ == Add(Div(Mul(Pow(web_thick, 3), height), Int2(12)),
                    Div(Mul(Pow(flg_width, 3), flg_thick), Int2(12)))
    IN IF IsZero(Mul(Int2(2), area))
       THEN Raise("ZeroDivisionError", "y = depth - sum_b_d_squared / (2 * area)")
       ELSE Return(Section(<<<<x, x>>, <<y, Sub(depth, y)>>>>, area, <<Ixx_, Iyy_>>))

circle_legacy(radius) ==
    Return(Section(<<<<radius, radius>>, <<radius, radius>>>>,
                   Mul(pi, Pow(radius, 2)),
                   <<Div(Mul(pi, Pow(radius, 4)), Int2(4)),
                     Div(Mul(pi, Pow(radius, 4)), Int2(4))>>))

pipe_legacy(od, thickness) ==
    LET outer == circle_legacy(Div(od, Int2(2))).value
        inner == circle_legacy(Sub(Div(od, Int2(2)), thickness)).value
    IN Return(Section(outer.centroid,
                      Sub(outer.area, inner.area),
                      <<Sub(Ixx(outer), Ixx(inner)), Sub(Iyy(outer), Iyy(inner))>>))

Ibeam_equalflange(depth, web_thick, flg_width, flg_thick) ==
    LET h == Sub(depth, web_thick)
        y == Div(depth, Int2(2))
        x == Div(flg_width, Int2(2))
        area == Add(Mul(Mul(Int2(2), flg_width), flg_thick), Mul(h, web_thick))
        Ixx_ == Div(Sub(Mul(flg_width, Pow(depth, 3)),
                        Mul(Pow(h, 3), Sub(flg_width, web_thick))), Int2(12))
        Iyy_ == Div(Add(Mul(Mul(Int2(2), flg_thick), Pow(flg_width, 3)),
                        Mul(h, Pow(web_thick, 3))), Int2(12))
    IN Return(Section(<<<<x, x>>, <<y, y>>>>, area, <<Ixx_, Iyy_>>))

parallel_axis_legacy(widths, heights, axis_offset) ==
    LET acc == parallel_axis_loop(widths, heights, axis_offset,
                                  Min(Len(widths), Len(heights)))
        d == Div(acc.moment, acc.area)
        Ixx_ == Sub(acc.i_de, Mul(acc.area, Pow(d, 2)))
    IN IF IsZero(acc.area)
       THEN Raise("ZeroDivisionError", "d = moment / area")
       ELSE Return(<<Section(<<None, <<d, Sub(acc.prev, d)>>>>,
                             acc.area, <<Ixx_, None>>),
                     acc.i_de>>)

(***************************************************************************)
(* The callers' inputs.                                                    *)
(***************************************************************************)
Versions == {"current", "legacy"}

\* dimensions handed to the shape formulas: 0, 1/2, 1, 3/2, 2, ...
Dims == {Rat(n, 2) : n \in 0..MaxHalves}

StripWidths == {Int2(w) : w \in 0..MaxWidth}
StripHeights == {Int2(h) : h \in 0..MaxHeight}
Offsets == {Int2(0), Int2(1)}

SeqsUpTo(S, n) == UNION {[1..m -> S] : m \in 0..n}

(***************************************************************************)
(* State machine: idle --Call_*--> returned | raised --Read_*--> ...       *)
(*                     <---------------- Discard ----------------          *)
(***************************************************************************)
Idle == [kind |-> "idle", exc |-> "", at |-> ""]
NoRead == [prop |-> "", kind |-> "", exc |-> "", value |-> None]
NoCall == [fn |-> "", version |-> "", args |-> <<>>]
Running == [kind |-> "running", exc |-> "", at |-> ""]
\* no gcd is running
NoFrame == [pc |-> "none", a |-> 0, b |-> 0, d |-> 0]
\* no input has been accepted yet
NoInput == [by |-> "", entry |-> <<>>, value |-> None]
\* the command line program before main() is entered
CliStart ==
    [pc |-> "start", choice |-> "", item |-> "", func |-> "", args |-> <<>>,
     frames |-> 1, said |-> "", got |-> NoInput, exc |-> "", at |-> ""]

Init ==
    /\ call = NoCall
    /\ outcome = Idle
    /\ section = None
    /\ i_de = None
    /\ read = NoRead
    /\ result = None
    /\ frame = NoFrame
    /\ cli = CliStart

\* what the caller holds after `fn` ended with r: a Section, or the exception
Outcome(r) == [kind |-> r.kind, exc |-> r.exc, at |-> r.at]
Invocation(fn, v, args) == [fn |-> fn, version |-> v, args |-> args]

Call_bar ==
    /\ outcome = Idle
    /\ \E v \in Versions, width \in Dims, thickness \in Dims :
        LET r == IF v = "current" THEN bar(width, thickness)
                 ELSE bar_legacy(width, thickness)
        IN /\ call' = Invocation("bar", v, <<width, thickness>>)
           /\ outcome' = Outcome(r)
           /\ section' = r.value
    /\ i_de' = None
    /\ read' = NoRead
    /\ UNCHANGED otherVars

Call_tbeam ==
    /\ outcome = Idle
    /\ \E v \in Versions, depth \in Dims, web_thick \in Dims,
          flg_width \in Dims, flg_thick \in Dims :
        LET r == IF v = "current" THEN tbeam(depth, web_thick, flg_width, flg_thick)
                 ELSE tbeam_legacy(depth, web_thick, flg_width, flg_thick)
        IN /\ call' = Invocation("tbeam", v, <<depth, web_thick, flg_width, flg_thick>>)
           /\ outcome' = Outcome(r)
           /\ section' = r.value
    /\ i_de' = None
    /\ read' = NoRead
    /\ UNCHANGED otherVars

\* the legacy version has no angle
Call_angle ==
    /\ outcome = Idle
    /\ \E long_leg \in Dims, short_leg \in Dims, thick \in Dims :
        LET r == angle(long_leg, short_leg, thick)
        IN /\ call' = Invocation("angle", "current", <<long_leg, short_leg, thick>>)
           /\ outcome' = Outcome(r)
           /\ section' = r.value
    /\ i_de' = None
    /\ read' = NoRead
    /\ UNCHANGED otherVars

Call_pipe ==
    /\ outcome = Idle
    /\ \E v \in Versions, od \in Dims, thickness \in Dims :
        LET r == IF v = "current" THEN pipe(od, thickness)
                 ELSE pipe_legacy(od, thickness)
        IN /\ call' = Invocation("pipe", v, <<od, thickness>>)
           /\ outcome' = Outcome(r)
           /\ section' = r.value
    /\ i_de' = None
    /\ read' = NoRead
    /\ UNCHANGED otherVars

Call_circle ==
    /\ outcome = Idle
    /\ \E v \in Versions, radius \in Dims :
        LET r == IF v = "current" THEN circle(radius) ELSE circle_legacy(radius)
        IN /\ call' = Invocation("circle", v, <<radius>>)
           /\ outcome' = Outcome(r)
           /\ section' = r.value
    /\ i_de' = None
    /\ read' = NoRead
    /\ UNCHANGED otherVars

Call_i_beam_equalflange ==
    /\ outcome = Idle
    /\ \E v \in Versions, depth \in Dims, web_thick \in Dims,
          flg_width \in Dims, flg_thick \in Dims :
        LET r == IF v = "current"
                 THEN i_beam_equalflange(depth, web_thick, flg_width, flg_thick)
                 ELSE Ibeam_equalflange(depth, web_thick, flg_width, flg_thick)
        IN /\ call' = Invocation("i_beam_equalflange", v,
                                 <<depth, web_thick, flg_width, flg_thick>>)
           /\ outcome' = Outcome(r)
           /\ section' = r.value
    /\ i_de' = None
    /\ read' = NoRead
    /\ UNCHANGED otherVars

Call_parallel_axis ==
    /\ outcome = Idle
    /\ \E v \in Versions,
          widths \in SeqsUpTo(StripWidths, MaxStrips),
          heights \in SeqsUpTo(StripHeights, MaxStrips),
          axis_offset \in Offsets :
        LET r == IF v = "current" THEN parallel_axis(widths, heights, axis_offset)
                 ELSE parallel_axis_legacy(widths, heights, axis_offset)
        IN /\ call' = Invocation("parallel_axis", v, <<widths, heights, axis_offset>>)
           /\ outcome' = Outcome(r)
           /\ section' = IF r.kind = "return" THEN r.value[1] ELSE None
           /\ i_de' = IF r.kind = "return" THEN r.value[2] ELSE None
    /\ read' = NoRead
    /\ UNCHANGED otherVars

\* reading a property of the returned Section
PropRead(prop, r) == [prop |-> prop, kind |-> r.kind, exc |-> r.exc, value |-> r.value]

Read_Sx ==
    /\ outcome.kind = "return"
    /\ read' = PropRead("Sx", IF call.version = "current" THEN Sx(section)
                              ELSE Sx_legacy(section))
    /\ UNCHANGED <<call, outcome, section, i_de>>
    /\ UNCHANGED otherVars

Read_Sy ==
    /\ outcome.kind = "return"
    /\ read' = PropRead("Sy", IF call.version = "current" THEN Sy(section)
                              ELSE Sy_legacy(section))
    /\ UNCHANGED <<call, outcome, section, i_de>>
    /\ UNCHANGED otherVars

Read_str ==
    /\ outcome.kind = "return"
    /\ read' = PropRead("__str__", IF call.version = "current" THEN Section_str(section)
                                   ELSE Section_str_legacy(section))
    /\ UNCHANGED <<call, outcome, section, i_de>>
    /\ UNCHANGED otherVars

\* the caller tries to assign a field of the returned Section
Assign_field ==
    /\ outcome.kind = "return"
    /\ \E name \in {"centroid", "area", "moment_of_inertia"}, x \in {Zero, Int2(1)} :
        LET value == IF name = "centroid" THEN <<(<<x, x>>), (<<x, x>>)>>
                     ELSE IF name = "area" THEN x
                     ELSE <<x, x>>
            o == Section_setattr(section, name, value)
        IN /\ section' = o.self
           /\ read' = PropRead("__setattr__", o.result)
    /\ UNCHANGED <<call, outcome, i_de>>
    /\ UNCHANGED otherVars

\* the caller drops the result and is ready for the next call
Discard ==
    /\ outcome.kind \in {"return", "raise"}
    /\ call' = NoCall
    /\ outcome' = Idle
    /\ section' = None
    /\ i_de' = None
    /\ read' = NoRead
    /\ result' = None
    /\ UNCHANGED <<frame, cli>>

Next ==
    \/ Call_bar
    \/ Call_tbeam
    \/ Call_angle
    \/ Call_pipe
    \/ Call_circle
    \/ Call_i_beam_equalflange
    \/ Call_parallel_axis
    \/ Read_Sx
    \/ Read_Sy
    \/ Read_str
    \/ Assign_field
    \/ Discard

Spec == Init /\ [][Next]_vars

(***************************************************************************)
(* Integer routines (src/math_tools/algrebra.py).  Python integers are     *)
(* unbounded; the explored values are small.  gcd runs one loop iteration  *)
(* per step, its locals a, b, d and its position held in `frame`; lcm      *)
(* evaluates a * b, calls gcd and floor-divides.                           *)
(***************************************************************************)
MaxInt == 12

Ints == (-MaxInt)..MaxInt

Max(a, b) == IF a >= b THEN a ELSE b

RECURSIVE make_odd(_)
make_odd(num) ==
    IF num = 0 THEN Raise("ZeroDivisionError", "make_odd: raise ZeroDivisionError")
    ELSE IF num % 2 = 0 THEN make_odd(num \div 2)
    ELSE Return(num)

\* gcd up to its first loop: either the early return or the locals
gcd_entry(a, b) ==
    LET a1 == Abs(a)
        b1 == Abs(b)
    IN IF Min(a1, b1) = 0
       THEN [r |-> Return(Max(a1, b1)), frame |-> NoFrame]
       ELSE [r |-> None, frame |-> [pc |-> "halve", a |-> a1, b |-> b1, d |-> 0]]

\* the first loop's body with `d += 1` forgotten
gcd_halve_without_count(f) ==
    [f EXCEPT !.a = f.a \div 2, !.b = f.b \div 2]

\* body of `while a % 2 == 0 and b % 2 == 0`
gcd_halve(f) ==
    [f EXCEPT !.d = f.d + 1, !.a = f.a \div 2, !.b = f.b \div 2]

\* a = make_odd(a); b = make_odd(b) after the first loop
gcd_make_odd(f) ==
    IF make_odd(f.a).kind = "raise" THEN [r |-> make_odd(f.a), frame |-> NoFrame]
    ELSE IF make_odd(f.b).kind = "raise" THEN [r |-> make_odd(f.b), frame |-> NoFrame]
    ELSE [r |-> None,
          frame |-> [f EXCEPT !.pc = "subtract",
                              !.a = make_odd(f.a).value, !.b = make_odd(f.b).value]]

\* body of `while a != b`
gcd_subtract(f) ==
    LET m == IF f.a > f.b THEN make_odd(f.a - f.b) ELSE make_odd(f.b - f.a)
    IN IF m.kind = "raise" THEN [r |-> m, frame |-> NoFrame]
       ELSE IF f.a > f.b THEN [r |-> None, frame |-> [f EXCEPT !.a = m.value]]
       ELSE [r |-> None, frame |-> [f EXCEPT !.b = m.value]]

\* return (1 << d) * a
gcd_return(f) == Return((2 ^ f.d) * f.a)

\* lcm once gcd(a, b) has ended with g: return a * b // g
lcm_after_gcd(a, b, g) ==
    IF g.kind = "raise" THEN g
    ELSE IF g.value = 0 THEN Raise("ZeroDivisionError", "a * b // gcd(a, b)")
    ELSE Return((a * b) \div g.value)

\* what the caller of `fn` gets when the gcd it started ends with g
Ended(fn, args, g) == IF fn = "lcm" THEN lcm_after_gcd(args[1], args[2], g) ELSE g

Call_gcd ==
    /\ outcome = Idle
    /\ \E a \in Ints, b \in Ints :
        LET e == gcd_entry(a, b)
        IN /\ call' = Invocation("gcd", "current", <<a, b>>)
           /\ frame' = e.frame
           /\ outcome' = IF e.r = None THEN Running ELSE Outcome(e.r)
           /\ result' = IF e.r = None THEN None ELSE e.r.value
    /\ UNCHANGED <<section, i_de, read, cli>>

Call_lcm ==
    /\ outcome = Idle
    /\ \E a \in Ints, b \in Ints :
        LET e == gcd_entry(a, b)
            r == lcm_after_gcd(a, b, e.r)
        IN /\ call' = Invocation("lcm", "current", <<a, b>>)
           /\ frame' = e.frame
           /\ outcome' = IF e.r = None THEN Running ELSE Outcome(r)
           /\ result' = IF e.r = None THEN None ELSE r.value
    /\ UNCHANGED <<section, i_de, read, cli>>

Gcd_halve ==
    /\ frame.pc = "halve"
    /\ frame.a % 2 = 0 /\ frame.b % 2 = 0
    /\ frame' = gcd_halve(frame)
    /\ UNCHANGED <<call, outcome, section, i_de, read, result, cli>>

Gcd_make_odd ==
    /\ frame.pc = "halve"
    /\ ~(frame.a % 2 = 0 /\ frame.b % 2 = 0)
    /\ LET e == gcd_make_odd(frame)
           r == Ended(call.fn, call.args, e.r)
       IN /\ frame' = e.frame
          /\ outcome' = IF e.r = None THEN Running ELSE Outcome(r)
          /\ result' = IF e.r = None THEN None ELSE r.value
    /\ UNCHANGED <<call, section, i_de, read, cli>>

Gcd_subtract ==
    /\ frame.pc = "subtract"
    /\ frame.a # frame.b
    /\ LET e == gcd_subtract(frame)
           r == Ended(call.fn, call.args, e.r)
       IN /\ frame' = e.frame
          /\ outcome' = IF e.r = None THEN Running ELSE Outcome(r)
          /\ result' = IF e.r = None THEN None ELSE r.value
    /\ UNCHANGED <<call, section, i_de, read, cli>>

Gcd_return ==
    /\ frame.pc = "subtract"
    /\ frame.a = frame.b
    /\ LET r == Ended(call.fn, call.args, gcd_return(frame))
       IN /\ frame' = NoFrame
          /\ outcome' = Outcome(r)
          /\ result' = r.value
    /\ UNCHANGED <<call, section, i_de, read, cli>>

GcdStep == Gcd_halve \/ Gcd_make_odd \/ Gcd_subtract \/ Gcd_return

NextAlgebra ==
    \/ Call_gcd
    \/ Call_lcm
    \/ Gcd_halve
    \/ Gcd_make_odd
    \/ Gcd_subtract
    \/ Gcd_return
    \/ Discard

\* a started gcd keeps executing: the interpreter runs the next statement
SpecAlgebra == Init /\ [][NextAlgebra]_vars /\ WF_vars(GcdStep)

(***************************************************************************)
(* Lengths (src/math_tools/lengths.py and its legacy copy src/lengths.py). *)
(* A float is the binary fraction m * 2^e it denotes, m odd or zero.  An   *)
(* operation whose exact value fits the 53-bit significand is exact; an    *)
(* addition whose smaller operand lies below a quarter of the larger       *)
(* operand's unit in the last place returns the larger operand.  Python    *)
(* ints go through the same operations exactly.                            *)
(***************************************************************************)
MaxQuarters == 52
MantissaBits == 53
\* exponent of the smallest magnitudes explored, 2^-60
TinyExp == 60

RECURSIVE BitLen(_)
BitLen(n) == IF n = 0 THEN 0 ELSE 1 + BitLen(n \div 2)

RECURSIVE Float(_, _)
Float(m, e) ==
    IF m = 0 THEN [m |-> 0, e |-> 0]
    ELSE IF m % 2 = 0 THEN Float(m \div 2, e + 1)
    ELSE [m |-> m, e |-> e]

\* position of the leading bit of a non-zero float
Top(a) == a.e + BitLen(Abs(a.m))

\* a + b, rounded to the nearest float
float_add(a, b) ==
    IF a.m = 0 THEN b
    ELSE IF b.m = 0 THEN a
    ELSE LET hi == IF a.e >= b.e THEN a ELSE b
             lo == IF a.e >= b.e THEN b ELSE a
             gap == hi.e - lo.e
         IN CASE BitLen(Abs(hi.m)) + gap + 1 <= MantissaBits
                    -> Float(hi.m * (2 ^ gap) + lo.m, lo.e)
              [] /\ BitLen(Abs(hi.m)) + gap + 1 > MantissaBits
                 /\ Top(lo) <= Top(hi) - (MantissaBits + 2)
                    -> hi

\* a * n for a small integer n
float_mul(a, n) == Float(a.m * n, a.e)

float_less(a, b) ==
    LET lo == Min(a.e, b.e)
        MagLess(x, y) ==
            IF Top(x) # Top(y) THEN Top(x) < Top(y)
            ELSE Abs(x.m) * (2 ^ (x.e - lo)) < Abs(y.m) * (2 ^ (y.e - lo))
    IN CASE a.m <= 0 /\ b.m > 0 -> TRUE
         [] a.m < 0 /\ b.m = 0 -> TRUE
         [] a.m >= 0 /\ b.m <= 0 -> FALSE
         [] a.m > 0 /\ b.m > 0 -> MagLess(a, b)
         [] a.m < 0 /\ b.m < 0 -> MagLess(b, a)

\* divmod(v, w) of a float v by a positive integer w (float_divmod):
\* mod = fmod(v, w) has the sign of v and is exact; a negative mod is
\* moved into [0, w) by the rounded addition mod += w, with div -= 1
float_divmod(v, w) ==
    LET k == IF v.e < 0 THEN -v.e ELSE 0
        sign == IF v.m < 0 THEN -1 ELSE 1
        small == v.m = 0 \/ Top(v) <= 0
        n == Abs(v.m) * (2 ^ (v.e + k))
        mod == IF small THEN v ELSE Float(sign * (n % (w * (2 ^ k))), -k)
        div == IF small THEN 0 ELSE sign * (n \div (w * (2 ^ k)))
    IN IF mod.m < 0
       THEN [div |-> div - 1, mod |-> float_add(mod, Float(w, 0))]
       ELSE [div |-> div, mod |-> mod]

\* USCustomary(feet, inch): __post_init__ -> _process_feet_and_inches
USCustomary(feet, inch) ==
    LET f == float_divmod(feet, 1)
        i == float_divmod(float_add(inch, float_mul(f.mod, 12)), 12)
    IN [feet |-> f.div + i.div, inch |-> i.mod]

\* the legacy copy has the same three statements
USCustomary_legacy(feet, inch) ==
    LET f == float_divmod(feet, 1)
        i == float_divmod(float_add(inch, float_mul(f.mod, 12)), 12)
    IN [feet |-> f.div + i.div, inch |-> i.mod]

\* self.feet * 12 + self.inch, for stored or given values
as_inches(feet, inch) == float_add(float_mul(feet, 12), inch)

LengthInputs ==
    {Float(q, -2) : q \in (-MaxQuarters)..MaxQuarters}
        \cup {Float(1, -TinyExp), Float(-1, -TinyExp)}

New_USCustomary ==
    /\ outcome = Idle
    /\ \E v \in Versions, feet \in LengthInputs, inch \in LengthInputs :
        LET u == IF v = "legacy" THEN USCustomary_legacy(feet, inch)
                 ELSE USCustomary(feet, inch)
        IN /\ call' = Invocation("USCustomary", v, <<feet, inch>>)
           /\ outcome' = Outcome(Return(u))
           /\ result' = u
    /\ UNCHANGED <<section, i_de, read, frame, cli>>

NextLengths ==
    \/ New_USCustomary
    \/ Discard

SpecLengths == Init /\ [][NextLengths]_vars

(***************************************************************************)
(* Command line menu (src/math_tools/__main__.py).  One action per line    *)
(* read by input(): an entry is a sequence of characters.  `cli.frames`    *)
(* is the depth of the Python call stack.  The formula called once every   *)
(* argument is collected either returns, and its result is printed, or     *)
(* raises; its own behaviour is the subject of the other specifications.   *)
(***************************************************************************)
MaxEntryLen == 2
\* CPython's default sys.getrecursionlimit()
RecursionLimit == 1000
\* <module>, main, menu
MenuFrames == 3
\* <module>, main, execute, get_param
GetParamFrames == 4

Digits == {"0", "1", "2", "3", "4", "5", "6", "7", "8", "9"}
Chars == Digits \cup {".", "-", "x"}
Entries == SeqsUpTo(Chars, MaxEntryLen)

DigitVal ==
    ("0" :> 0) @@ ("1" :> 1) @@ ("2" :> 2) @@ ("3" :> 3) @@ ("4" :> 4) @@
    ("5" :> 5) @@ ("6" :> 6) @@ ("7" :> 7) @@ ("8" :> 8) @@ ("9" :> 9)

AllDigits(s) == \A i \in 1..Len(s) : s[i] \in Digits

RECURSIVE DigitsValue(_)
DigitsValue(s) ==
    IF s = <<>> THEN 0
    ELSE DigitsValue(SubSeq(s, 1, Len(s) - 1)) * 10 + DigitVal[s[Len(s)]]

Unsigned(s) == IF Len(s) > 0 /\ s[1] = "-" THEN Tail(s) ELSE s
SignOf(s) == IF Len(s) > 0 /\ s[1] = "-" THEN -1 ELSE 1

\* int(selected): [-] digits
parse_int(s) ==
    IF Len(Unsigned(s)) > 0 /\ AllDigits(Unsigned(s))
    THEN Return(SignOf(s) * DigitsValue(Unsigned(s)))
    ELSE Raise("ValueError", "int")

\* float(entry): [-] digits [. [digits]]  or  [-] . digits
parse_float(s) ==
    LET body == Unsigned(s)
        dots == {i \in 1..Len(body) : body[i] = "."}
        dot == CHOOSE i \in dots : TRUE
        ip == SubSeq(body, 1, dot - 1)
        fp == SubSeq(body, dot + 1, Len(body))
    IN IF dots = {}
       THEN IF Len(body) > 0 /\ AllDigits(body)
            THEN Return(Int2(SignOf(s) * DigitsValue(body)))
            ELSE Raise("ValueError", "float")
       ELSE IF Cardinality(dots) = 1 /\ AllDigits(ip) /\ AllDigits(fp)
                 /\ Len(ip) + Len(fp) > 0
            THEN Return(Rat(SignOf(s) * (DigitsValue(ip) * (10 ^ Len(fp)) + DigitsValue(fp)),
                            10 ^ Len(fp)))
            ELSE Raise("ValueError", "float")

FUNCTIONS ==
    [cones |->
        ("distance" :> "cones.distance") @@ ("angle" :> "cones.angle") @@
        ("radius" :> "cones.radius_at_location") @@ ("height" :> "cones.height"),
     section_modulus |->
        ("bar" :> "section_modulus.bar") @@ ("tbeam" :> "section_modulus.tbeam") @@
        ("angle" :> "section_modulus.angle") @@ ("pipe" :> "section_modulus.pipe") @@
        ("circle" :> "section_modulus.circle") @@
        ("I beam equal flange" :> "section_modulus.i_beam_equalflange")]

\* list(Mod), list(Cones), list(SectionModulus): StrEnum members with auto()
\* values, the lower-cased member names
Mod == <<"cones", "section_modulus", "quit">>
Cones == <<"distance", "angle", "radius", "height", "back", "quit">>
SectionModulus ==
    <<"bar", "tbeam", "angle", "pipe", "circle", "ibeam_equalflange", "back", "quit">>

\* modules[choice] in main
modules == [cones |-> Cones, section_modulus |-> SectionModulus, back |-> Mod]

\* signature(func).parameters, in declaration order
Parameters ==
    ("cones.distance" :> <<"height_point_1", "angle_point_1", "height_point_2",
                           "angle_point_2", "cone_large_end_diameter", "cone_half_angle">>) @@
    ("cones.angle" :> <<"dia_lg_end", "dia_sm_end", "length">>) @@
    ("cones.radius_at_location" :>
        <<"dia_lg_end", "half_apex_angle", "location_from_lg_end">>) @@
    ("cones.height" :> <<"dia_lg_end", "dia_sm_end", "half_apex_angle">>) @@
    ("section_modulus.bar" :> <<"width", "thickness">>) @@
    ("section_modulus.tbeam" :> <<"depth", "web_thick", "flg_width", "flg_thick">>) @@
    ("section_modulus.angle" :> <<"long_leg", "short_leg", "thick">>) @@
    ("section_modulus.pipe" :> <<"od", "thickness">>) @@
    ("section_modulus.circle" :> <<"radius">>) @@
    ("section_modulus.i_beam_equalflange" :>
        <<"depth", "web_thick", "flg_width", "flg_thick">>)

is_valid_choice(selected, max_limit) ==
    IF parse_int(selected).kind = "raise" THEN FALSE
    ELSE 0 < parse_int(selected).value /\ parse_int(selected).value <= max_limit

\* options[int(picked) - 1]
menu_option(options, picked) == options[parse_int(picked).value]

Picked(options, entry) ==
    [by |-> "menu", entry |-> entry, value |-> menu_option(options, entry)]

\* main() up to the first prompt of the module menu
Main_start ==
    /\ cli.pc = "start"
    /\ cli' = [cli EXCEPT !.pc = "mod_menu", !.frames = MenuFrames, !.said = "menu"]
    /\ UNCHANGED <<call, outcome, section, i_de, read, result, frame>>

\* menu(): an entry that is not a valid choice is reported, the loop goes on
Menu_retry ==
    /\ cli.pc \in {"mod_menu", "item_menu"}
    /\ \E entry \in Entries :
        LET options == IF cli.pc = "mod_menu" THEN Mod ELSE modules[cli.choice]
        IN /\ ~is_valid_choice(entry, Len(options))
           /\ cli' = [cli EXCEPT !.said = "Invalid choice", !.got = NoInput]
    /\ UNCHANGED <<call, outcome, section, i_de, read, result, frame>>

\* menu(Mod, ...) returns; main leaves on quit, else shows the module's menu
Mod_select ==
    /\ cli.pc = "mod_menu"
    /\ \E entry \in Entries :
        /\ is_valid_choice(entry, Len(Mod))
        /\ LET choice == menu_option(Mod, entry)
           IN cli' = IF choice = "quit"
                     THEN [cli EXCEPT !.pc = "exited", !.frames = 1, !.said = "Goodbye",
                                      !.got = Picked(Mod, entry)]
                     ELSE [cli EXCEPT !.pc = "item_menu", !.choice = choice,
                                      !.said = "menu", !.got = Picked(Mod, entry)]
    /\ UNCHANGED <<call, outcome, section, i_de, read, result, frame>>

\* menu(modules[choice], ...) returns; main goes back, leaves, or looks the
\* item up in FUNCTIONS, prints its docstring and enters execute
Item_select ==
    /\ cli.pc = "item_menu"
    /\ \E entry \in Entries :
        LET options == modules[cli.choice]
            item == menu_option(options, entry)
            got == Picked(options, entry)
        IN /\ is_valid_choice(entry, Len(options))
           /\ cli' =
                IF item = "back"
                THEN [cli EXCEPT !.pc = "mod_menu", !.choice = "", !.item = "",
                                 !.said = "menu", !.got = got]
                ELSE IF item = "quit"
                THEN [cli EXCEPT !.pc = "exited", !.frames = 1, !.said = "Goodbye",
                                 !.got = got]
                ELSE IF item \notin DOMAIN FUNCTIONS[cli.choice]
                THEN [cli EXCEPT !.pc = "crashed", !.item = item, !.frames = 1,
                                 !.got = got, !.exc = "KeyError",
                                 !.at = "FUNCTIONS[choice][item]"]
                ELSE [cli EXCEPT !.pc = "param", !.item = item,
                                 !.func = FUNCTIONS[cli.choice][item], !.args = <<>>,
                                 !.frames = GetParamFrames, !.said = "doc", !.got = got]
    /\ UNCHANGED <<call, outcome, section, i_de, read, result, frame>>

\* get_param(): float(input()) raises ValueError; the handler prints and
\* calls get_param again, one frame deeper
Param_retry ==
    /\ cli.pc = "param"
    /\ \E entry \in Entries :
        /\ parse_float(entry).kind = "raise"
        /\ cli' = IF cli.frames + 1 > RecursionLimit
                  THEN [cli EXCEPT !.pc = "crashed", !.frames = 1, !.got = NoInput,
                                   !.said = "Invalid Input", !.exc = "RecursionError",
                                   !.at = "get_param"]
                  ELSE [cli EXCEPT !.frames = cli.frames + 1, !.said = "Invalid Input",
                                   !.got = NoInput]
    /\ UNCHANGED <<call, outcome, section, i_de, read, result, frame>>

\* get_param(): float(input()) succeeds and the value is returned through
\* every pending get_param frame; after the last parameter execute calls
\* func(*args) and main prints the result
Param_accept ==
    /\ cli.pc = "param"
    /\ \E entry \in Entries, raises \in BOOLEAN :
        LET v == parse_float(entry)
            args == Append(cli.args, Parameters[cli.func][Len(cli.args) + 1])
            got == [by |-> "get_param", entry |-> entry, value |-> v.value]
        IN /\ v.kind = "return"
           /\ cli' =
                IF Len(args) < Len(Parameters[cli.func])
                THEN [cli EXCEPT !.args = args, !.frames = GetParamFrames, !.got = got]
                ELSE IF raises
                THEN [cli EXCEPT !.pc = "crashed", !.args = args, !.frames = 1,
                                 !.got = got, !.exc = "ArithmeticError",
                                 !.at = cli.func]
                ELSE [cli EXCEPT !.pc = "item_menu", !.args = args,
                                 !.frames = MenuFrames, !.said = "result", !.got = got]
    /\ UNCHANGED <<call, outcome, section, i_de, read, result, frame>>

NextCli ==
    \/ Main_start
    \/ Menu_retry
    \/ Mod_select
    \/ Item_select
    \/ Param_retry
    \/ Param_accept

SpecCli == Init /\ [][NextCli]_vars

(***************************************************************************)
(* Properties.                                                             *)
(***************************************************************************)
Positive(a) == a.n > 0
Half(a) == Div(a, Int2(2))

Called(fn) == call.fn = fn /\ outcome.kind # "idle"
Returned(fn) == call.fn = fn /\ outcome.kind = "return"

\* the strips parallel_axis consumes: zip(widths, heights)
NStrips == Min(Len(call.args[1]), Len(call.args[2]))
StripW(j) == call.args[1][j]
StripH(j) == IF j = 0 THEN call.args[3] ELSE call.args[2][j]

StrictlyIncreasing == \A j \in 1..NStrips : Less(StripH(j - 1), StripH(j))
PositiveWidths == \A j \in 1..NStrips : Positive(StripW(j))

\* C1: a single strip (width, height), width > 0 and height > 0, on axis
\* offset 0 gives the rectangle's values: centroid distance d = height/2
\* and Ixx = width * height^3 / 12.
C1_SingleStripIsBar ==
    ( /\ Called("parallel_axis")
      /\ Len(call.args[1]) = 1 /\ Len(call.args[2]) = 1
      /\ IsZero(call.args[3])
      /\ Positive(StripW(1)) /\ Positive(StripH(1)) )
    => /\ outcome.kind = "return"
       /\ section.centroid[2][1] = Half(StripH(1))
       /\ Ixx(section) = Div(Mul(StripW(1), Pow(StripH(1), 3)), Int2(12))

C1_Witness ==
    /\ Returned("parallel_axis")
    /\ call.version = "current"
    /\ call.args = <<(<<Int2(2)>>), (<<Int2(3)>>), Zero>>
    /\ section.centroid[2][1] = Rat(3, 2)
    /\ Ixx(section) = Rat(9, 2)

\* the sums the composite section is defined by, over the first j strips
RECURSIVE SumArea(_)
SumArea(j) ==
    IF j = 0 THEN Zero
    ELSE Add(SumArea(j - 1), Mul(StripW(j), Sub(StripH(j), StripH(j - 1))))

RECURSIVE SumFirstMoment(_)
SumFirstMoment(j) ==
    IF j = 0 THEN Zero
    ELSE Add(SumFirstMoment(j - 1),
             Half(Mul(StripW(j), Sub(Pow(StripH(j), 2), Pow(StripH(j - 1), 2)))))

RECURSIVE SumSecondMoment(_)
SumSecondMoment(j) ==
    IF j = 0 THEN Zero
    ELSE Add(SumSecondMoment(j - 1),
             Div(Mul(StripW(j), Sub(Pow(StripH(j), 3), Pow(StripH(j - 1), 3))), Int2(3)))

InvalidInput == {"ValueError"}

RejectedAsInvalid ==
    /\ outcome.kind = "raise"
    /\ outcome.exc \in InvalidInput

\* C3: parallel_axis([], []) fails with an invalid-input error, raised
\* because the sequence is empty and before the division computing d.
C3_EmptyRejected ==
    ( /\ Called("parallel_axis")
      /\ call.args[1] = <<>> /\ call.args[2] = <<>> )
    => /\ RejectedAsInvalid
       /\ outcome.at # "d = moment / area"

\* C4: parallel_axis rejects with an invalid-input failure, before any
\* accumulation, every strip sequence whose heights are not strictly
\* increasing; it never returns a Section for such input.
C4_NonIncreasingRejected ==
    ( /\ Called("parallel_axis")
      /\ NStrips >= 1
      /\ ~StrictlyIncreasing )
    => RejectedAsInvalid

\* C5: pipe(od, thickness) with thickness >= od/2 fails with a
\* caller-visible invalid-geometry error and returns no Section.
C5_ThickPipeRejected ==
    ( /\ Called("pipe")
      /\ LessEq(Half(call.args[1]), call.args[2]) )
    => /\ outcome.kind = "raise"
       /\ section = None

\* the area the angle and tbeam formulas compute from their arguments
AngleArea == Mul(Sub(Add(call.args[1], call.args[2]), call.args[3]), call.args[3])
TbeamArea == Add(Mul(call.args[3], call.args[4]),
                 Mul(Sub(call.args[1], call.args[2]), call.args[2]))

DegenerateAngle ==
    \/ ~Positive(AngleArea)
    \/ LessEq(call.args[1], call.args[3])
    \/ LessEq(call.args[2], call.args[3])

\* C6: angle and tbeam reject every degenerate input (area <= 0, or for
\* angle a thickness >= a leg) with an invalid-geometry failure: no division
\* by a non-positive area, no Section with non-positive area.
C6_DegenerateRejected ==
    /\ (Called("angle") /\ DegenerateAngle) => RejectedAsInvalid
    /\ (Called("tbeam") /\ ~Positive(TbeamArea)) => RejectedAsInvalid

\* a centroid distance that Sx (axis 2) or Sy (axis 1) divides by is zero;
\* the legacy parallel_axis leaves None where the current one leaves (0, 0)
ZeroDistance(axis) ==
    \/ section.centroid[axis] = None
    \/ IsZero(section.centroid[axis][1])
    \/ IsZero(section.centroid[axis][2])

\* C7: on a Section with a zero centroid distance in the denominator,
\* reading Sx / Sy yields an explicit "undefined" (no exception), and
\* rendering the Section as text does not raise.
C7_UndefinedModulusReported ==
    /\ (read.prop = "Sx" /\ ZeroDistance(2)) => (read.kind = "return" /\ read.value = None)
    /\ (read.prop = "Sy" /\ ZeroDistance(1)) => (read.kind = "return" /\ read.value = None)
    /\ (read.prop = "__str__" /\ (ZeroDistance(1) \/ ZeroDistance(2)))
          => read.kind = "return"

\* circle of the version that was called
CircleOf(radius) ==
    IF call.version = "current" THEN circle(radius).value
    ELSE circle_legacy(radius).value

\* C8: pipe(od, thickness) is circle(od/2) minus circle(od/2 - thickness)
\* in area, Ixx and Iyy, with the outer circle's centroid; with
\* thickness = 0 the area, Ixx and Iyy are all 0.
C8_PipeIsCircleDifference ==
    Called("pipe") =>
        LET od == call.args[1]
            thickness == call.args[2]
            outer == CircleOf(Half(od))
            inner == CircleOf(Sub(Half(od), thickness))
        IN /\ outcome.kind = "return"
           /\ section.area = Sub(outer.area, inner.area)
           /\ Ixx(section) = Sub(Ixx(outer), Ixx(inner))
           /\ Iyy(section) = Sub(Iyy(outer), Iyy(inner))
           /\ section.centroid = outer.centroid
           /\ IsZero(thickness) =>
                 IsZero(section.area) /\ IsZero(Ixx(section)) /\ IsZero(Iyy(section))

\* pipe(3, 1/2): outer radius 3/2, inner radius 1, area = (9/4 - 1) pi
C8_Witness ==
    /\ Returned("pipe")
    /\ call.version = "current"
    /\ call.args = <<Int2(3), Rat(1, 2)>>
    /\ section.area = Mul(pi, Rat(5, 4))
    /\ section.centroid[1][1] = Rat(3, 2)

C8_WitnessZeroThickness ==
    /\ Returned("pipe")
    /\ Positive(call.args[1])
    /\ IsZero(call.args[2])
    /\ IsZero(section.area)

\* C9: in every version, circle(r) has area pi r^2, Ixx = Iyy = pi r^4 / 64
\* and centroid ((r, r), (r, r)).
C9_CircleFormula ==
    Called("circle") =>
        LET r == call.args[1]
        IN /\ outcome.kind = "return"
           /\ section.area = Mul(pi, Pow(r, 2))
           /\ Ixx(section) = Div(Mul(pi, Pow(r, 4)), Int2(64))
           /\ Iyy(section) = Div(Mul(pi, Pow(r, 4)), Int2(64))
           /\ section.centroid = <<(<<r, r>>), (<<r, r>>)>>

\* C10: for a T-beam with area > 0, tbeam(d, w, bf, tf) has
\* area = bf tf + (d - w) w, x centroid (bf/2, bf/2), y centroid (y, d - y)
\* with y = d - (d^2 w + tf^2 (bf - w)) / (2 area), the two y distances
\* summing to d, Ixx = (1/3)[w y^3 + bf (d - y)^3 - (bf - w)(d - y - tf)^3]
\* and Iyy = w^3 (d - w)/12 + bf^3 tf/12.
C10_TbeamFormula ==
    (Called("tbeam") /\ Positive(TbeamArea)) =>
        LET d == call.args[1]
            w == call.args[2]
            bf == call.args[3]
            tf == call.args[4]
            area == TbeamArea
            y == Sub(d, Div(Add(Mul(Mul(d, d), w), Mul(Mul(tf, tf), Sub(bf, w))),
                            Mul(Int2(2), area)))
            far == Sub(d, y)
            notch == Sub(far, tf)
        IN /\ outcome.kind = "return"
           /\ section.area = area
           /\ section.centroid[1] = <<Half(bf), Half(bf)>>
           /\ section.centroid[2] = <<y, far>>
           /\ Add(section.centroid[2][1], section.centroid[2][2]) = d
           /\ Ixx(section) =
                 Div(Sub(Add(Mul(w, Pow(y, 3)), Mul(bf, Pow(far, 3))),
                         Mul(Sub(bf, w), Pow(notch, 3))), Int2(3))
           /\ Iyy(section) =
                 Add(Div(Mul(Pow(w, 3), Sub(d, w)), Int2(12)),
                     Div(Mul(Pow(bf, 3), tf), Int2(12)))

\* tbeam(3, 1, 2, 1): area 4, y = 3 - 10/8 = 7/4
C10_Witness ==
    /\ Returned("tbeam")
    /\ call.version = "current"
    /\ call.args = <<Int2(3), Int2(1), Int2(2), Int2(1)>>
    /\ section.area = Int2(4)
    /\ section.centroid[2] = <<Rat(7, 4), Rat(5, 4)>>

\* C11: for an angle with area > 0, angle(L, S, t) has area = (L + S - t) t,
\* centroid ((x, S - x), (y, L - y)) with x = (1/area)(t/2)(S^2 + L t - t^2)
\* and y = (1/area)(t/2)(L^2 + S t - t^2), and Ixx = Ix0 - area y^2,
\* Iyy = Iy0 - area x^2 for the corner moments Ix0 = (t/3)(S t^2 + L^3 - t^3)
\* and Iy0 = (t/3)(L t^2 + S^3 - t^3).
C11_AngleFormula ==
    (Called("angle") /\ Positive(AngleArea)) =>
        LET L == call.args[1]
            S == call.args[2]
            t == call.args[3]
            area == AngleArea
            t2 == Mul(t, t)
            t3 == Mul(t2, t)
            x == Div(Mul(Half(t), Sub(Add(Mul(S, S), Mul(L, t)), t2)), area)
            y == Div(Mul(Half(t), Sub(Add(Mul(L, L), Mul(S, t)), t2)), area)
            Ix0 == Div(Mul(t, Sub(Add(Mul(S, t2), Mul(Mul(L, L), L)), t3)), Int2(3))
            Iy0 == Div(Mul(t, Sub(Add(Mul(L, t2), Mul(Mul(S, S), S)), t3)), Int2(3))
        IN /\ outcome.kind = "return"
           /\ section.area = area
           /\ section.centroid = <<(<<x, Sub(S, x)>>), (<<y, Sub(L, y)>>)>>
           /\ Ixx(section) = Sub(Ix0, Mul(area, Mul(y, y)))
           /\ Iyy(section) = Sub(Iy0, Mul(area, Mul(x, x)))

\* angle(3, 2, 1/2): area 9/4, x = 7/12, y = 13/12
C11_Witness ==
    /\ Returned("angle")
    /\ call.args = <<Int2(3), Int2(2), Rat(1, 2)>>
    /\ section.area = Rat(9, 4)
    /\ section.centroid[1][1] = Rat(7, 12)
    /\ section.centroid[2][1] = Rat(13, 12)

\* C12: bar(w, t) has area = w t, Ixx = w^3 t / 12, Iyy = t^3 w / 12 and
\* centroid ((t/2, t/2), (w/2, w/2)); bar(2, 0.5) gives centroid
\* ((0.25, 0.25), (1.0, 1.0)), area 1.0, Ixx 1/3 and Iyy 1/48.
C12_BarFormula ==
    Called("bar") =>
        LET w == call.args[1]
            t == call.args[2]
        IN /\ outcome.kind = "return"
           /\ section.area = Mul(w, t)
           /\ Ixx(section) = Div(Mul(Mul(Mul(w, w), w), t), Int2(12))
           /\ Iyy(section) = Div(Mul(Mul(Mul(t, t), t), w), Int2(12))
           /\ section.centroid = <<(<<Half(t), Half(t)>>), (<<Half(w), Half(w)>>)>>
           /\ (w = Int2(2) /\ t = Rat(1, 2)) =>
                 /\ section.centroid = <<(<<Rat(1, 4), Rat(1, 4)>>), (<<Int2(1), Int2(1)>>)>>
                 /\ section.area = Int2(1)
                 /\ section.moment_of_inertia = <<Rat(1, 3), Rat(1, 48)>>

C12_Witness ==
    /\ Returned("bar")
    /\ call.version = "current"
    /\ call.args = <<Int2(2), Rat(1, 2)>>
    /\ section.moment_of_inertia = <<Rat(1, 3), Rat(1, 48)>>

\* the value last read as Sx / Sy is the one the stored fields give now:
\* each component times its centroid distance is the moment of inertia
ModulusFromFields ==
    /\ (read.prop = "Sx" /\ read.kind = "return" /\ read.value # None) =>
          /\ Mul(read.value[1], section.centroid[2][1]) = Ixx(section)
          /\ Mul(read.value[2], section.centroid[2][2]) = Ixx(section)
    /\ (read.prop = "Sy" /\ read.kind = "return" /\ read.value # None) =>
          /\ Mul(read.value[1], section.centroid[1][1]) = Iyy(section)
          /\ Mul(read.value[2], section.centroid[1][2]) = Iyy(section)

\* C13: a Section is immutable: no read of Sx, Sy or the text rendering and
\* no attempted field assignment changes centroid, area or
\* moment_of_inertia; the assignment is rejected with an error; and what
\* Sx / Sy return is computed from the stored fields at every read.
C13_SectionImmutable ==
    /\ [][ (outcome.kind = "return" /\ outcome'.kind = "return") =>
              /\ section' = section
              /\ i_de' = i_de
              /\ (read'.prop = "__setattr__" => read'.kind = "raise") ]_vars
    /\ []ModulusFromFields

\* an assignment to a field of bar(2, 1/2) was rejected and the Section
\* still holds its values
C13_Witness ==
    /\ Returned("bar")
    /\ call.args = <<Int2(2), Rat(1, 2)>>
    /\ read.prop = "__setattr__"
    /\ read.exc = "FrozenInstanceError"
    /\ section.area = Int2(1)

Divides(x, y) == IF x = 0 THEN y = 0 ELSE Abs(y) % Abs(x) = 0

\* g is the greatest common divisor of |a| and |b|
IsGcd(g, a, b) ==
    /\ g >= 0
    /\ Divides(g, Abs(a)) /\ Divides(g, Abs(b))
    /\ \A c \in 0..MaxInt : (Divides(c, Abs(a)) /\ Divides(c, Abs(b))) => Divides(c, g)
    /\ (a = 0 => g = Abs(b))

\* C16: for all integers a, b of any sign, zero included, gcd(a, b)
\* terminates without raising (make_odd is never handed 0) and returns the
\* greatest common divisor of |a| and |b|, with gcd(0, n) = |n|.
C16_GcdTerminatesCorrect ==
    /\ [](call.fn = "gcd" => outcome.kind # "raise")
    /\ []((call.fn = "gcd" /\ outcome.kind = "return")
              => IsGcd(result, call.args[1], call.args[2]))
    /\ ((call.fn = "gcd" /\ outcome.kind = "running")
           ~> (call.fn = "gcd" /\ outcome.kind = "return"))

\* gcd(12, -8) went through both loops and returned 4
C16_Witness ==
    /\ call.fn = "gcd"
    /\ call.args = <<12, -8>>
    /\ outcome.kind = "return"
    /\ result = 4

\* m is the least common multiple of a and b
IsLcm(m, a, b) ==
    /\ m >= 0
    /\ Divides(a, m) /\ Divides(b, m)
    /\ (a # 0 /\ b # 0) =>
          /\ m > 0
          /\ \A c \in 1..(MaxInt * MaxInt) :
                (Divides(a, c) /\ Divides(b, c)) => m <= c

\* C17: for every pair of integers, lcm(a, b) does not raise and returns
\* the least common multiple: non-negative, divisible by a and by b, and the
\* smallest positive such integer when both are non-zero.
C17_LcmIsLeastCommonMultiple ==
    (call.fn = "lcm" /\ outcome.kind \in {"return", "raise"}) =>
        /\ outcome.kind = "return"
        /\ IsLcm(result, call.args[1], call.args[2])

\* C18: after USCustomary(feet, inch) the stored feet is an integer, the
\* stored inch satisfies 0 <= inch < 12, and the total length is preserved:
\* stored feet * 12 + inch equals the given feet * 12 + inch.
C18_LengthNormalised ==
    (call.fn = "USCustomary" /\ outcome.kind = "return") =>
        /\ result.feet \in Int
        /\ ~float_less(result.inch, Float(0, 0))
        /\ float_less(result.inch, Float(12, 0))
        /\ as_inches(Float(result.feet, 0), result.inch)
              = as_inches(call.args[1], call.args[2])

\* on the quarter grid, where no addition rounds, construction normalises
QuarterGridNormalised ==
    (/\ call.fn = "USCustomary"
     /\ outcome.kind = "return"
     /\ call.args[1].e >= -2
     /\ call.args[2].e >= -2) =>
        /\ result.feet \in Int
        /\ ~float_less(result.inch, Float(0, 0))
        /\ float_less(result.inch, Float(12, 0))
        /\ as_inches(Float(result.feet, 0), result.inch)
              = as_inches(call.args[1], call.args[2])

\* C14: whatever is typed, and however many invalid entries in a row,
\* get_param and menu reject the entry and prompt again without ever ending
\* in an uncaught exception, and what they return is the parsed value of the
\* accepted entry (get_param) or the option at that 1-based index (menu).
C14_InvalidInputReprompts ==
    /\ cli.at # "get_param"
    /\ cli.exc # "RecursionError"
    /\ (cli.got.by = "get_param" =>
            /\ parse_float(cli.got.entry).kind = "return"
            /\ cli.got.value = parse_float(cli.got.entry).value)
    /\ (cli.got.by = "menu" =>
            /\ parse_int(cli.got.entry).kind = "return"
            /\ \E options \in {Mod, Cones, SectionModulus} :
                  /\ parse_int(cli.got.entry).value \in 1..Len(options)
                  /\ cli.got.value = options[parse_int(cli.got.entry).value])

\* C15: every function item offered by a module menu resolves to a function
\* in FUNCTIONS (no selectable item ends in a lookup failure), and a printed
\* result follows one prompted argument per declared parameter, in order.
C15_EveryItemResolves ==
    /\ cli.exc # "KeyError"
    /\ (cli.pc = "param" => cli.func = FUNCTIONS[cli.choice][cli.item])
    /\ (cli.said = "result" => cli.args = Parameters[cli.func])

\* C19: for every d > tf > 0 and bf >= w > 0, tbeam(d, w, bf, tf) and
\* parallel_axis([bf, w], [tf, d]) have the same area and the same Ixx, and
\* parallel_axis's centroid distance from the flange face is d minus
\* tbeam's y.
C19_TbeamAgreesWithComposite ==
    (/\ call.fn = "tbeam"
     /\ call.version = "current"
     /\ Less(call.args[4], call.args[1]) /\ Positive(call.args[4])
     /\ LessEq(call.args[2], call.args[3]) /\ Positive(call.args[2])) =>
        LET d == call.args[1]
            w == call.args[2]
            bf == call.args[3]
            tf == call.args[4]
            composite == parallel_axis(<<bf, w>>, <<tf, d>>, Zero)
        IN /\ outcome.kind = "return"
           /\ composite.kind = "return"
           /\ section.area = composite.value[1].area
           /\ Ixx(section) = Ixx(composite.value[1])
           /\ composite.value[1].centroid[2][1] = Sub(d, section.centroid[2][1])

====
